---- MODULE Spec2Model ----
(***************************************************************************)
(* Model of scripts/lidar/process_lidar.py: the site orchestrator          *)
(* (process_site and the __main__ loop), the AOI loader                    *)
(* (load_aoi_for_site), the clipper (clip_raster_to_aoi), the relief       *)
(* shader (compute_hillshade) and the resampler (resample_to_10m).         *)
(*                                                                         *)
(* Seven specifications share the module:                                  *)
(*   Spec      the run of __main__ over SITE_TILE_MAP on a filesystem      *)
(*             chosen by Init; a stage either returns or raises;           *)
(*   SpecClip  clip_raster_to_aoi applied to one raster and one AOI;       *)
(*   SpecHill  compute_hillshade applied to one elevation raster;          *)
(*   SpecResample  resample_to_10m applied to one raster and target size;  *)
(*   SpecAoi   load_aoi_for_site applied to one geopackage and site name;  *)
(*   SpecHandles  one stage call taken statement by statement, with the    *)
(*             raster handles it holds;                                    *)
(*   SpecPipelines  the stage calls of the (site, tile) pairs interleaved. *)
(***************************************************************************)
EXTENDS Integers, Sequences, FiniteSets, TLC

VARIABLES
    \* ---- the run (Spec) ----
    pc,         \* position of __main__ / process_site
    siteIdx,    \* index into Sites of the site being processed
    tileIdx,    \* index into SITE_TILE_MAP[site] of the tile being processed
    aoi,        \* the value `aoi` of process_site (NoAoi before it is loaded)
    rawTiles,   \* tile codes whose file RAW_LIDAR_DIR/{tile_code}.tif exists
    aoiStore,   \* the geopackage: whether it exists, features per layer
    dirs,       \* output directories created
    files,      \* output files written
    raised,     \* the exception that ended the run ("none" while running)
    raisedAt,   \* <<site, tile>> being processed when it was raised
    invoked,    \* log of the stage calls made, in order
    reads,      \* log of the file each stage call was given to read
    writes,     \* log of the file each stage call opened for writing
    aoiUse,     \* what load_aoi_for_site returned and what the clipper was given
    \* ---- one call of clip_raster_to_aoi (SpecClip) ----
    clipIn,     \* the raster file, the AOI and the filesystem before the call
    clipOut,    \* what the call left behind
    \* ---- one call of compute_hillshade (SpecHill) ----
    hillIn,     \* the elevation raster read
    hillOut,    \* what the call left behind
    \* ---- one call of resample_to_10m (SpecResample) ----
    resIn,      \* the raster file, the target size and the filesystem before
    resOut,     \* what the call left behind
    \* ---- one call of load_aoi_for_site (SpecAoi) ----
    loadIn,     \* the geopackage and the site asked for
    loadOut,    \* what the call returned or raised
    \* ---- one stage call, statement by statement (SpecHandles) ----
    stepIn,     \* the stage, its tile and the statement that raises, if any
    step,       \* the statement reached, the handles open, what was done
    \* ---- the per-tile pipelines taken in any order (SpecPipelines) ----
    parPc,      \* the next stage of each (site, tile)
    parFs,      \* the output directories and files and their contents
    parLog      \* the paths each pipeline has read and written

runVars  == <<pc, siteIdx, tileIdx, aoi, rawTiles, aoiStore, dirs, files,
              raised, raisedAt, invoked, reads, writes, aoiUse>>
clipVars == <<clipIn, clipOut>>
hillVars == <<hillIn, hillOut>>
resVars  == <<resIn, resOut>>
loadVars == <<loadIn, loadOut>>
stepVars == <<stepIn, step>>
parVars  == <<parPc, parFs, parLog>>
vars     == <<pc, siteIdx, tileIdx, aoi, rawTiles, aoiStore, dirs, files,
              raised, raisedAt, invoked, reads, writes, aoiUse, clipIn, clipOut,
              hillIn, hillOut,
              resIn, resOut, loadIn, loadOut, stepIn, step, parPc, parFs, parLog>>

----------------------------------------------------------------------------
(* Bounds of the model *)

\* at most this many of the configured raw tile files are absent
MaxMissing == 1
\* a layer of the geopackage holds at most this many features
MaxFeatures == 3

----------------------------------------------------------------------------
(* CONFIG: process_lidar.py lines 14-26 *)

Sites == <<"desborough_bng", "wicksteed_bng", "rewild_harb_bng">>

SiteSet == {Sites[i] : i \in 1..Len(Sites)}

SITE_TILE_MAP ==
    [s \in SiteSet |->
        CASE s = "desborough_bng"  -> <<"SP88sw", "SP78se">>
          [] s = "wicksteed_bng"   -> <<"SP87ne">>
          [] s = "rewild_harb_bng" -> <<"SP78nw", "SP79sw", "SP79se", "SP78ne">>]

TilesOf(s) == {SITE_TILE_MAP[s][i] : i \in 1..Len(SITE_TILE_MAP[s])}

AllTiles == UNION {TilesOf(s) : s \in SiteSet}

\* OUT_DIR / site_name
SiteOutDir(site) == <<"OUT_DIR", site>>

\* a slip: one clipped file for the whole site
ClippedPath_perSite(site, tile) ==
    [dir |-> SiteOutDir(site), name |-> <<site, "_DTM_1m_clipped.tif">>]

\* site_out_dir / f"{site_name}_{tile_code}_DTM_1m_clipped.tif"
ClippedPath(site, tile) ==
    [dir |-> SiteOutDir(site), name |-> <<site, "_", tile, "_DTM_1m_clipped.tif">>]

\* a slip: the hillshade is written over the clipped DTM
HillshadePath_overClip(site, tile) ==
    [dir |-> SiteOutDir(site), name |-> <<site, "_", tile, "_DTM_1m_clipped.tif">>]

\* site_out_dir / f"{site_name}_{tile_code}_hillshade_1m.tif"
HillshadePath(site, tile) ==
    [dir |-> SiteOutDir(site), name |-> <<site, "_", tile, "_hillshade_1m.tif">>]

\* site_out_dir / f"{site_name}_{tile_code}_DTM_10m.tif"
Dtm10mPath(site, tile) ==
    [dir |-> SiteOutDir(site), name |-> <<site, "_", tile, "_DTM_10m.tif">>]

----------------------------------------------------------------------------
(* The run: __main__ and process_site *)

\* the coordinate reference systems of rasters and AOI layers
CrsSet == {"EPSG:27700", "EPSG:4326"}

\* the easting of each CRS's origin: a point at x in CRS k is at
\* x + CrsEasting[k] - CrsEasting[j] in CRS j
CrsEasting == [k \in CrsSet |-> IF k = "EPSG:27700" THEN 0 ELSE 2]

\* GeoDataFrame.to_crs
ToCrs(geom, crs) ==
    [crs   |-> crs,
     cells |-> {<<p[1] + CrsEasting[geom.crs] - CrsEasting[crs], p[2]>> :
                    p \in geom.cells}]

NoAoi == [site |-> "none", rows |-> 0, crs |-> "none", cells |-> {}]

\* the GeoDataFrame load_aoi_for_site returns for a site whose layer is in
\* the CRS crs: one row, a geometry of two cells
LoadedAoi(site, crs) ==
    [site |-> site, rows |-> 1, crs |-> crs, cells |-> {<<0, 0>>, <<1, 0>>}]

\* nothing loaded, nothing given to the clipper yet
NoAoiUse ==
    [loads |-> [s \in SiteSet |-> 0], loaded |-> NoAoi, passed |-> NoAoi,
     reprojected |-> FALSE]

\* line 182: the frame returned is bound to `aoi`; the calls of
\* load_aoi_for_site for the site are counted
AoiLoaded(use, site, gdf) ==
    [loads |-> [use.loads EXCEPT ![site] = @ + 1], loaded |-> gdf,
     passed |-> NoAoi, reprojected |-> FALSE]

\* line 196: the frame bound to `aoi` is given to clip_raster_to_aoi, which
\* reprojects it when its CRS is not rasterCrs (lines 62-63)
AoiPassed(use, gdf, rasterCrs) ==
    [use EXCEPT !.passed = gdf,
                !.reprojected = @ \/ gdf.crs # rasterCrs]
NoLayer == -1

CurSite == Sites[siteIdx]
CurTile == SITE_TILE_MAP[CurSite][tileIdx]

\* `raise`: nothing catches an exception in process_site or in __main__,
\* so it ends the interpreter
Raise(err, site, tile) ==
    /\ pc' = "aborted"
    /\ raised' = err
    /\ raisedAt' = <<site, tile>>

\* __main__: for site_name, tile_codes in SITE_TILE_MAP.items()
NextSite ==
    /\ pc = "main"
    /\ IF siteIdx <= Len(Sites)
       THEN pc' = "load"
       ELSE pc' = "done"
    /\ UNCHANGED <<siteIdx, tileIdx, aoi, rawTiles, aoiStore, dirs, files,
                   raised, raisedAt, invoked, reads, writes, aoiUse>>

\* a slip: the failure of the loader is noted and the site is processed
\* all the same
LoadAoi_continues ==
    /\ pc = "load"
    /\ IF ~aoiStore.exists \/ aoiStore.layers[CurSite] \in {NoLayer, 0}
       THEN /\ raised' = "NotFoundError"
            /\ raisedAt' = <<CurSite, "none">>
            /\ aoi' = NoAoi
            /\ aoiUse' = AoiLoaded(aoiUse, CurSite, NoAoi)
       ELSE /\ \E c \in CrsSet : aoi' = LoadedAoi(CurSite, c)
            /\ aoiUse' = AoiLoaded(aoiUse, CurSite, aoi')
            /\ UNCHANGED <<raised, raisedAt>>
    /\ dirs' = dirs \cup {SiteOutDir(CurSite)}
    /\ tileIdx' = 1
    /\ pc' = "tile"
    /\ UNCHANGED <<siteIdx, rawTiles, aoiStore, files, invoked, reads, writes>>

\* process_site, lines 181-185: load_aoi_for_site, then mkdir of the
\* site's output directory
LoadAoi ==
    /\ pc = "load"
    /\ IF ~aoiStore.exists
       THEN /\ Raise("NotFoundError", CurSite, "none")      \* line 41
            /\ aoiUse' = AoiLoaded(aoiUse, CurSite, NoAoi)
            /\ UNCHANGED <<aoi, dirs, tileIdx>>
       ELSE IF aoiStore.layers[CurSite] = NoLayer
       THEN /\ Raise("NotFoundError", CurSite, "none")      \* line 43
            /\ aoiUse' = AoiLoaded(aoiUse, CurSite, NoAoi)
            /\ UNCHANGED <<aoi, dirs, tileIdx>>
       ELSE IF aoiStore.layers[CurSite] = 0
       THEN /\ Raise("NotFoundError", CurSite, "none")      \* line 46
            /\ aoiUse' = AoiLoaded(aoiUse, CurSite, NoAoi)
            /\ UNCHANGED <<aoi, dirs, tileIdx>>
       ELSE /\ \E c \in CrsSet : aoi' = LoadedAoi(CurSite, c)  \* lines 49-53
            /\ aoiUse' = AoiLoaded(aoiUse, CurSite, aoi')
            /\ dirs' = dirs \cup {SiteOutDir(CurSite)}
            /\ tileIdx' = 1
            /\ pc' = "tile"
            /\ UNCHANGED <<raised, raisedAt>>
    /\ UNCHANGED <<siteIdx, rawTiles, aoiStore, files, invoked, reads, writes>>

\* a slip: an absent tile is stepped over
CheckTile_skipMissing ==
    /\ pc = "tile"
    /\ IF tileIdx > Len(SITE_TILE_MAP[CurSite])
       THEN /\ pc' = "main"
            /\ siteIdx' = siteIdx + 1
            /\ UNCHANGED <<tileIdx, raised, raisedAt>>
       ELSE IF CurTile \notin rawTiles
       THEN /\ raised' = "MissingTileError"
            /\ raisedAt' = <<CurSite, CurTile>>
            /\ tileIdx' = tileIdx + 1
            /\ UNCHANGED <<pc, siteIdx>>
       ELSE /\ pc' = "clip"
            /\ UNCHANGED <<siteIdx, tileIdx, raised, raisedAt>>
    /\ UNCHANGED <<aoi, rawTiles, aoiStore, dirs, files, invoked, reads, writes,
                   aoiUse>>

\* process_site, lines 187-190: the head of the loop over tile_codes and
\* the check that the raw tile exists
CheckTile ==
    /\ pc = "tile"
    /\ IF tileIdx > Len(SITE_TILE_MAP[CurSite])
       THEN /\ pc' = "main"
            /\ siteIdx' = siteIdx + 1
            /\ UNCHANGED <<tileIdx, raised, raisedAt>>
       ELSE IF CurTile \notin rawTiles
       THEN /\ Raise("MissingTileError", CurSite, CurTile)
            /\ UNCHANGED <<siteIdx, tileIdx>>
       ELSE /\ pc' = "clip"
            /\ UNCHANGED <<siteIdx, tileIdx, raised, raisedAt>>
    /\ UNCHANGED <<aoi, rawTiles, aoiStore, dirs, files, invoked, reads, writes,
                   aoiUse>>

\* RAW_LIDAR_DIR / f"{tile_code}.tif"
RawTilePath(tile) == [dir |-> <<"RAW_LIDAR_DIR">>, name |-> <<tile, ".tif">>]

\* RAW_AOI, line 17
RawAoiPath == [dir |-> <<"RAW_AOI_DIR">>, name |-> <<"aoi_sites", ".gpkg">>]

\* line 196: the clipper is given dtm_path
ClipInput(site, tile) == RawTilePath(tile)

\* line 200: the relief shader is given clipped_path
HillshadeInput(site, tile) == ClippedPath(site, tile)

\* a slip: the resampler is given the raw tile
ResampleInput_raw(site, tile) == RawTilePath(tile)

\* line 204: the resampler is given clipped_path
ResampleInput(site, tile) == ClippedPath(site, tile)

\* the path process_site gives a stage to read, lines 196, 200, 204
StageInput(stage, site, tile) ==
    CASE stage = "clip" -> ClipInput(site, tile)
      [] stage = "hillshade" -> HillshadeInput(site, tile)
      [] stage = "resample" -> ResampleInput(site, tile)

\* the path process_site gives a stage to write, lines 196, 200, 204
StageOutput(stage, site, tile) ==
    CASE stage = "clip" -> ClippedPath(site, tile)
      [] stage = "hillshade" -> HillshadePath(site, tile)
      [] stage = "resample" -> Dtm10mPath(site, tile)

\* the entry of `reads` for a stage call on the current tile: the path it
\* opens, and whether an output of this run is there to be read
ReadBy(stage, path) ==
    [stage |-> stage, site |-> CurSite, tile |-> CurTile, path |-> path,
     written |-> path \in files]

\* the entry of `writes` for a stage call on the current tile: the path it
\* opens with mode "w"
WrittenBy(stage, path) ==
    [stage |-> stage, site |-> CurSite, tile |-> CurTile, path |-> path]

\* a slip: the frame is reprojected in place
AoiAfterClip_inPlace(aoiGdf, rasterCrs) ==
    IF aoiGdf.crs # rasterCrs
    THEN [aoiGdf EXCEPT !.crs = rasterCrs,
                        !.cells = ToCrs([crs |-> aoiGdf.crs, cells |-> aoiGdf.cells],
                                        rasterCrs).cells]
    ELSE aoiGdf

\* The frame bound to the caller's `aoi` after clip_raster_to_aoi has run,
\* returned or raised: lines 62-63 bind the parameter aoi_gdf to the new
\* frame that to_crs returns and leave the caller's frame as it was.
AoiAfterClip(aoiGdf, rasterCrs) == aoiGdf

\* process_site, lines 195-196: clip_raster_to_aoi(dtm_path, aoi, clipped_path).
\* The call returns after writing clipped_path, or mask() raises
\* (the AOI does not overlap the tile) before anything is written.
Clip ==
    /\ pc = "clip"
    /\ \E rasterCrs \in CrsSet :
          /\ aoiUse' = AoiPassed(aoiUse, aoi, rasterCrs)
          /\ aoi' = AoiAfterClip(aoi, rasterCrs)
    /\ invoked' = Append(invoked, <<CurSite, CurTile, "clip">>)
    /\ reads' = Append(reads, ReadBy("clip", ClipInput(CurSite, CurTile)))
    /\ \/ /\ files' = files \cup {ClippedPath(CurSite, CurTile)}
          /\ writes' = Append(writes, WrittenBy("clip", ClippedPath(CurSite, CurTile)))
          /\ pc' = "hillshade"
          /\ UNCHANGED <<raised, raisedAt>>
       \/ /\ Raise("NoOverlapError", CurSite, CurTile)
          /\ UNCHANGED <<files, writes>>
    /\ UNCHANGED <<siteIdx, tileIdx, rawTiles, aoiStore, dirs>>

\* process_site, lines 199-200: compute_hillshade(clipped_path, hillshade_path).
\* np.gradient raises on a clipped raster of fewer than 2 rows or columns.
Hillshade ==
    /\ pc = "hillshade"
    /\ invoked' = Append(invoked, <<CurSite, CurTile, "hillshade">>)
    /\ reads' = Append(reads, ReadBy("hillshade", HillshadeInput(CurSite, CurTile)))
    /\ \/ /\ files' = files \cup {HillshadePath(CurSite, CurTile)}
          /\ writes' = Append(writes, WrittenBy("hillshade", HillshadePath(CurSite, CurTile)))
          /\ pc' = "resample"
          /\ UNCHANGED <<raised, raisedAt>>
       \/ /\ Raise("HillshadeError", CurSite, CurTile)
          /\ UNCHANGED <<files, writes>>
    /\ UNCHANGED <<siteIdx, tileIdx, aoi, rawTiles, aoiStore, dirs, aoiUse>>

\* process_site, lines 203-204: resample_to_10m(clipped_path, dtm_10m_path),
\* then the next iteration of the loop
Resample ==
    /\ pc = "resample"
    /\ invoked' = Append(invoked, <<CurSite, CurTile, "resample">>)
    /\ reads' = Append(reads, ReadBy("resample", ResampleInput(CurSite, CurTile)))
    /\ \/ /\ files' = files \cup {Dtm10mPath(CurSite, CurTile)}
          /\ writes' = Append(writes, WrittenBy("resample", Dtm10mPath(CurSite, CurTile)))
          /\ pc' = "tile"
          /\ tileIdx' = tileIdx + 1
          /\ UNCHANGED <<raised, raisedAt>>
       \/ /\ Raise("InvalidResolutionError", CurSite, CurTile)
          /\ UNCHANGED <<files, writes, tileIdx>>
    /\ UNCHANGED <<siteIdx, aoi, rawTiles, aoiStore, dirs, aoiUse>>

\* the filesystems a run can start on
RunInit ==
    /\ pc = "main"
    /\ siteIdx = 1
    /\ tileIdx = 1
    /\ aoi = NoAoi
    /\ \E missing \in SUBSET AllTiles :
          /\ Cardinality(missing) <= MaxMissing
          /\ rawTiles = AllTiles \ missing
    /\ \E e \in BOOLEAN, l \in [SiteSet -> NoLayer..MaxFeatures] :
          aoiStore = [exists |-> e, layers |-> l]
    /\ dirs = {<<"OUT_DIR">>}                              \* line 19
    /\ files = {}
    /\ raised = "none"
    /\ raisedAt = <<"none", "none">>
    /\ invoked = <<>>
    /\ reads = <<>>
    /\ writes = <<>>
    /\ aoiUse = NoAoiUse

RunIdle ==
    /\ pc = "idle"
    /\ siteIdx = 1
    /\ tileIdx = 1
    /\ aoi = NoAoi
    /\ rawTiles = {}
    /\ aoiStore = [exists |-> FALSE, layers |-> [s \in SiteSet |-> NoLayer]]
    /\ dirs = {}
    /\ files = {}
    /\ raised = "none"
    /\ raisedAt = <<"none", "none">>
    /\ invoked = <<>>
    /\ reads = <<>>
    /\ writes = <<>>
    /\ aoiUse = NoAoiUse

ClipIdle == clipIn = "idle" /\ clipOut = [status |-> "idle"]
HillIdle == hillIn = "idle" /\ hillOut = [status |-> "idle"]
ResIdle  == resIn = "idle" /\ resOut = [status |-> "idle"]
LoadIdle == loadIn = "idle" /\ loadOut = [status |-> "idle"]
StepIdle == stepIn = "idle" /\ step = [pc |-> "idle"]
ParIdle  == parPc = "idle" /\ parFs = "idle" /\ parLog = "idle"

Init == RunInit /\ ClipIdle /\ HillIdle /\ ResIdle /\ LoadIdle
        /\ StepIdle /\ ParIdle

Next ==
    \/ NextSite /\ UNCHANGED <<clipVars, hillVars, resVars, loadVars, stepVars, parVars>>
    \/ LoadAoi /\ UNCHANGED <<clipVars, hillVars, resVars, loadVars, stepVars, parVars>>
    \/ CheckTile /\ UNCHANGED <<clipVars, hillVars, resVars, loadVars, stepVars, parVars>>
    \/ Clip /\ UNCHANGED <<clipVars, hillVars, resVars, loadVars, stepVars, parVars>>
    \/ Hillshade /\ UNCHANGED <<clipVars, hillVars, resVars, loadVars, stepVars, parVars>>
    \/ Resample /\ UNCHANGED <<clipVars, hillVars, resVars, loadVars, stepVars, parVars>>

Spec == Init /\ [][Next]_vars

----------------------------------------------------------------------------
(* clip_raster_to_aoi, lines 56-81.                                        *)
(*                                                                         *)
(* World coordinates are integers. A geometry is a set of unit cells       *)
(* <<x, y>>, the cell covering [x, x+1] x [y, y+1], in the coordinates of  *)
(* its CRS. A raster has `height` rows and `width` columns, pixels         *)
(* <<row, col>> counted from 0, and the affine transform                   *)
(*     x = c + col * a,   y = f + row * e                                  *)
(* with a = 1 and e = -1 (north up), so that every pixel is one cell.      *)

\* rasters are at most MaxDim x MaxDim pixels
MaxDim == 3

\* a slip: the AOI is used in its own CRS
ReprojectAoi_skipped(aoiGdf, src) == aoiGdf

\* lines 62-63: reproject the AOI to the raster's CRS if needed
ReprojectAoi(aoiGdf, src) ==
    IF aoiGdf.crs # src.crs THEN ToCrs(aoiGdf, src.crs) ELSE aoiGdf

Min(S) == CHOOSE m \in S : \A n \in S : m <= n
Max(S) == CHOOSE m \in S : \A n \in S : m >= n

\* the bounding box of a geometry, in its coordinates
BoundsOf(cells) ==
    [minx |-> Min({p[1] : p \in cells}), maxx |-> Max({p[1] : p \in cells}) + 1,
     miny |-> Min({p[2] : p \in cells}), maxy |-> Max({p[2] : p \in cells}) + 1]

\* the pixels of the raster, and the cell a pixel covers
PixelsOf(h, w) == (0..(h - 1)) \X (0..(w - 1))

CellOfPixel(t, px) ==
    <<t.c + ((2 * px[2] + 1) * t.a) \div 2, t.f + ((2 * px[1] + 1) * t.e) \div 2>>

\* rasterio.features.geometry_window: the bounding box in pixel space
\* (offsets floored, far edges ceiled), not yet cut to the raster
BoundsWindow(src, cells) ==
    LET b == BoundsOf(cells)
        t == src.transform
    IN  [col0 |-> (b.minx - t.c) \div t.a,
         col1 |-> -((t.c - b.maxx) \div t.a),
         row0 |-> (t.f - b.maxy) \div (-t.e),
         row1 |-> -((b.miny - t.f) \div (-t.e))]

\* Window.intersection with the raster's own window (0, 0, width, height)
CropWindow(src, cells) ==
    LET bw == BoundsWindow(src, cells)
    IN  [col0 |-> Max({bw.col0, 0}), col1 |-> Min({bw.col1, src.width}),
         row0 |-> Max({bw.row0, 0}), row1 |-> Min({bw.row1, src.height})]

\* a slip: windows that only touch count as overlapping
Overlaps_touching(src, cells) ==
    LET bw == BoundsWindow(src, cells)
    IN  ~(bw.col0 > src.width \/ bw.col1 < 0
          \/ bw.row0 > src.height \/ bw.row1 < 0)

\* rasterio.windows.intersect: the bounding box and the raster share pixels
Overlaps(src, cells) ==
    LET bw == BoundsWindow(src, cells)
    IN  ~(bw.col0 >= src.width \/ bw.col1 <= 0
          \/ bw.row0 >= src.height \/ bw.row1 <= 0)

\* rasterio.mask.mask: the fill is the raster's nodata, or 0 when it has none
FillValue(src) == IF src.nodata.declared THEN src.nodata.value ELSE 0

\* a slip: crop without masking the pixels outside the shape
MaskedPixel_unmasked(src, cells, px) == src.data[px]

\* a slip: the mask inverted
MaskedPixel_inverted(src, cells, px) ==
    IF CellOfPixel(src.transform, px) \notin cells THEN src.data[px] ELSE FillValue(src)

\* the value mask() gives the source pixel px
MaskedPixel(src, cells, px) ==
    IF CellOfPixel(src.transform, px) \in cells THEN src.data[px] ELSE FillValue(src)

\* line 67: out_image, out_transform = mask(src, geoms, crop=True)
\* (called only when Overlaps; otherwise mask raises ValueError)
Mask(src, cells) ==
    LET win == CropWindow(src, cells)
        h   == win.row1 - win.row0
        w   == win.col1 - win.col0
    IN  [height    |-> h,
         width     |-> w,
         data      |-> [px \in PixelsOf(h, w) |->
                           MaskedPixel(src, cells, <<px[1] + win.row0, px[2] + win.col0>>)],
         transform |-> [a |-> src.transform.a, e |-> src.transform.e,
                        c |-> src.transform.c + win.col0 * src.transform.a,
                        f |-> src.transform.f + win.row0 * src.transform.e]]

\* lines 68-75: the source's meta with height, width and transform replaced
OutMeta(src, aoiGdf, out) ==
    [height |-> out.height, width |-> out.width, data |-> out.data,
     transform |-> out.transform, crs |-> src.crs, nodata |-> src.nodata,
     dtype |-> src.dtype, count |-> src.count]

NoRaster == [height |-> 0]

\* a slip: the directory is made and the output opened before the mask
OutputAtMaskFailure_openedFirst(in) ==
    [dirExists |-> TRUE, fileExists |-> TRUE, fileOpened |-> TRUE]

\* The output path when mask raises at line 67: lines 77-78, the mkdir and
\* the open for writing (which creates the file, or empties the one that is
\* there), come after it and are not reached.
OutputAtMaskFailure(in) ==
    [dirExists |-> in.dirExists, fileExists |-> in.fileExists, fileOpened |-> FALSE]

\* the whole call: what is on disk and what was raised when it ends
ClipRasterToAoi(in) ==
    LET src  == in.raster
        gdf  == ReprojectAoi(in.aoi, src)
        geom == gdf.cells
    IN  IF ~Overlaps(src, geom)
        THEN [status |-> "NoOverlapError", maskCrs |-> gdf.crs,
              dirExists |-> OutputAtMaskFailure(in).dirExists,
              fileExists |-> OutputAtMaskFailure(in).fileExists,
              fileOpened |-> OutputAtMaskFailure(in).fileOpened,
              raster |-> NoRaster]
        ELSE [status |-> "ok", maskCrs |-> gdf.crs,
              dirExists |-> TRUE, fileExists |-> TRUE, fileOpened |-> TRUE,
              raster |-> OutMeta(src, in.aoi, Mask(src, geom))]

\* elevation of the raw tile at a pixel: every pixel a different value
RawValue(px) == 10 * (px[1] + 1) + (px[2] + 1)

NodataChoices == {[declared |-> FALSE, value |-> 0], [declared |-> TRUE, value |-> -9999]}

\* the geometries tried: a rectangle of cells, whole or with one corner cut
AoiShapes ==
    LET R == (-1)..MaxDim
    IN  {rect \ cut :
            rect \in {{<<x, y>> : x \in x0..x1, y \in y0..y1} :
                          x0 \in R, x1 \in R, y0 \in R, y1 \in R},
            cut \in {{}, {<<0, 0>>}, {<<MaxDim - 1, MaxDim - 1>>}}} \ {{}}

ClipInit ==
    /\ clipOut = [status |-> "pending"]
    /\ \E h \in 1..MaxDim, w \in 1..MaxDim, nd \in NodataChoices,
          rcrs \in CrsSet, acrs \in CrsSet, shape \in AoiShapes,
          fs \in {<<FALSE, FALSE>>, <<TRUE, FALSE>>, <<TRUE, TRUE>>} :
          clipIn =
            [raster |-> [height |-> h, width |-> w,
                         data |-> [px \in PixelsOf(h, w) |-> RawValue(px)],
                         transform |-> [a |-> 1, e |-> -1, c |-> 0, f |-> h],
                         crs |-> rcrs, nodata |-> nd,
                         dtype |-> "float32", count |-> 1],
             aoi |-> ToCrs([crs |-> rcrs, cells |-> shape], acrs),
             dirExists |-> fs[1], fileExists |-> fs[2]]

ClipReturns ==
    /\ clipOut.status = "pending"
    /\ Overlaps(clipIn.raster, ReprojectAoi(clipIn.aoi, clipIn.raster).cells)
    /\ clipOut' = ClipRasterToAoi(clipIn)
    /\ UNCHANGED clipIn

ClipRaises ==
    /\ clipOut.status = "pending"
    /\ ~Overlaps(clipIn.raster, ReprojectAoi(clipIn.aoi, clipIn.raster).cells)
    /\ clipOut' = ClipRasterToAoi(clipIn)
    /\ UNCHANGED clipIn

InitClip == RunIdle /\ ClipInit /\ HillIdle /\ ResIdle /\ LoadIdle
        /\ StepIdle /\ ParIdle

NextClip ==
    \/ ClipReturns /\ UNCHANGED <<runVars, hillVars, resVars, loadVars, stepVars, parVars>>
    \/ ClipRaises /\ UNCHANGED <<runVars, hillVars, resVars, loadVars, stepVars, parVars>>

SpecClip == InitClip /\ [][NextClip]_vars

----------------------------------------------------------------------------
(* compute_hillshade, lines 84-131.                                        *)
(*                                                                         *)
(* A float is a record [nan, v]: not-a-number, or the number v. Elevations *)
(* are integers; a gradient is held as its numerator over twice the pixel  *)
(* size; the illumination hs is held in fixed point, in units of 1/10000.  *)

\* elevation rasters are at most MaxHillDim x MaxHillDim pixels
MaxHillDim == 3

NaN == [nan |-> TRUE, v |-> 0]
Num(n) == [nan |-> FALSE, v |-> n]

\* lines 87-88: dem = src.read(1).astype("float32"); dem[dem == src.nodata] = np.nan
ReadDem(src) ==
    [px \in PixelsOf(src.height, src.width) |->
        IF src.nodata.declared /\ src.data[px] = src.nodata.value
        THEN NaN
        ELSE Num(src.data[px])]

\* k * (x - y) in floating point: not-a-number when either operand is
Diff(x, y, k) == IF x.nan \/ y.nan THEN NaN ELSE Num(k * (x.v - y.v))

\* np.gradient along axis `ax` (1 = rows, 2 = columns) of an array with n
\* entries on that axis, as the numerator over 2 * spacing: central
\* differences inside, one-sided differences at the two ends
GradientNum(dem, n, ax, px) ==
    LET at(i) == dem[IF ax = 1 THEN <<i, px[2]>> ELSE <<px[1], i>>]
        i == px[ax]
    IN  IF i = 0 THEN Diff(at(1), at(0), 2)
        ELSE IF i = n - 1 THEN Diff(at(n - 1), at(n - 2), 2)
        ELSE Diff(at(i + 1), at(i - 1), 1)

RECURSIVE IsqrtIn(_, _, _)
IsqrtIn(n, lo, hi) ==
    IF lo >= hi THEN lo
    ELSE LET mid == (lo + hi + 1) \div 2
         IN  IF mid * mid <= n THEN IsqrtIn(n, mid, hi) ELSE IsqrtIn(n, lo, mid - 1)

\* the integer square root
Isqrt(n) == IsqrtIn(n, 0, 46340)

\* lines 97-107 with azimuth = 315 and altitude = 45, for dzdx = p / (2 xres)
\* and dzdy = q / (2 yres).  With slope = arctan(hypot(dzdx, dzdy)) and
\* aspect = arctan2(-dzdx, dzdy) the formula of lines 104-107 is
\*     (sin(alt) + cos(alt) * (cos(az) * dzdy - sin(az) * dzdx))
\*         / sqrt(1 + dzdx^2 + dzdy^2)
\*   = (sqrt(2) + dzdx + dzdy) / (2 * sqrt(1 + dzdx^2 + dzdy^2))
Illumination(p, q, xres, yres) ==
    IF p.nan \/ q.nan THEN NaN
    ELSE LET dx == 2 * xres
             dy == 2 * yres
             A  == p.v * dy
             B  == q.v * dx
             D  == dx * dy
         IN  Num(((1414 * D + 1000 * (A + B)) * 10000)
                     \div (2 * Isqrt(1000000 * (D * D + A * A + B * B))))

Finite(f) == {f[px].v : px \in {x \in DOMAIN f : ~f[x].nan}}

\* np.nanmin, np.nanmax: not-a-number when every entry is
NanMin(f) == IF Finite(f) = {} THEN NaN ELSE Num(Min(Finite(f)))
NanMax(f) == IF Finite(f) = {} THEN NaN ELSE Num(Max(Finite(f)))

\* a slip: the normalisation without its guard
Degenerate_unguarded(hsMin, hsMax) == FALSE

\* line 112, negated: the minimum or maximum is not finite, or they are equal
Degenerate(hsMin, hsMax) == hsMin.nan \/ hsMax.nan \/ hsMax.v = hsMin.v

\* a slip: scaled by 256, which uint8 wraps to 0 at the maximum
ByteOf_scale256(x, hsMin, hsMax, nanCast) ==
    IF hsMin.nan \/ hsMax.nan \/ hsMax.v = hsMin.v THEN 0
    ELSE IF x.nan THEN nanCast
    ELSE (((x.v - hsMin.v) * 256) \div (hsMax.v - hsMin.v)) % 256

\* lines 113-117 for one pixel: (hs - hs_min) / (hs_max - hs_min) * 255 cast
\* to uint8. The cast of not-a-number is not defined: nanCast stands for
\* whatever the platform gives.
ByteOf(x, hsMin, hsMax, nanCast) ==
    IF Degenerate(hsMin, hsMax) THEN 0
    ELSE IF x.nan \/ hsMin.nan \/ hsMax.nan \/ hsMax.v = hsMin.v THEN nanCast
    ELSE ((x.v - hsMin.v) * 255) \div (hsMax.v - hsMin.v)

\* line 118: hs_byte[np.isnan(hs)] = 0 applies to the pixels whose
\* illumination is not-a-number
ForcedToZero(hs, px) == hs[px].nan

\* lines 117-118 for one pixel
HillshadeByte(hs, hsMin, hsMax, nanCast, px) ==
    IF ForcedToZero(hs, px) THEN 0 ELSE ByteOf(hs[px], hsMin, hsMax, nanCast)

\* np.gradient needs at least 2 entries along each axis
GradientDefined(src) == src.height >= 2 /\ src.width >= 2

\* the whole call, when np.gradient does not raise
ComputeHillshade(src, nanCast) ==
    LET P     == PixelsOf(src.height, src.width)
        dem   == ReadDem(src)
        xres  == src.transform.a
        yres  == -src.transform.e
        \* line 95: dzdx, dzdy = np.gradient(dem, x_res, y_res): the first
        \* result is the gradient along axis 0 (rows) with spacing x_res,
        \* the second along axis 1 (columns) with spacing y_res
        dzdx  == [px \in P |-> GradientNum(dem, src.height, 1, px)]
        dzdy  == [px \in P |-> GradientNum(dem, src.width, 2, px)]
        hs    == [px \in P |-> Illumination(dzdx[px], dzdy[px], xres, yres)]
        hsMin == NanMin(hs)
        hsMax == NanMax(hs)
    IN  [status |-> "ok",
         height |-> src.height, width |-> src.width,
         transform |-> src.transform, crs |-> src.crs,
         dtype |-> "uint8", count |-> 1, nodata |-> 0,
         dividedByZero |-> ~Degenerate(hsMin, hsMax) /\ ~hsMin.nan /\ ~hsMax.nan
                              /\ hsMax.v = hsMin.v,
         x_res |-> xres, y_res |-> yres, dzdx |-> dzdx, dzdy |-> dzdy,
         hs |-> hs,
         data |-> [px \in P |-> HillshadeByte(hs, hsMin, hsMax, nanCast, px)]]

\* the elevation surfaces tried: a plane at height `base` rising by gr per
\* row and gc per column, with at most one pixel raised by 1
Elevation(base, gr, gc, bump, px) ==
    base + gr * px[1] + gc * px[2] + (IF bump = px THEN 1 ELSE 0)

\* the nodata masks tried: none, any single pixel, or every pixel
HoleChoices(h, w) ==
    {{}} \cup {{px} : px \in PixelsOf(h, w)} \cup {PixelsOf(h, w)}

HillInit ==
    /\ hillOut = [status |-> "pending"]
    /\ \E h \in 1..MaxHillDim, w \in 1..MaxHillDim :
       \E base \in {0, 3}, gr \in {0, 1}, gc \in {0, 1},
          bump \in PixelsOf(h, w) \cup {<<-1, -1>>},
          holes \in HoleChoices(h, w),
          nd \in NodataChoices,
          size \in {1, 2} :
          /\ ~nd.declared => holes = {}
          /\ hillIn =
               [height |-> h, width |-> w,
                data |-> [px \in PixelsOf(h, w) |->
                             IF px \in holes THEN nd.value
                             ELSE Elevation(base, gr, gc, bump, px)],
                transform |-> [a |-> size, e |-> -size, c |-> 0, f |-> h * size],
                crs |-> "EPSG:27700", nodata |-> nd,
                dtype |-> "float32", count |-> 1]

HillReturns ==
    /\ hillOut.status = "pending"
    /\ GradientDefined(hillIn)
    /\ \E nanCast \in {0, 255} : hillOut' = ComputeHillshade(hillIn, nanCast)
    /\ UNCHANGED hillIn

\* np.gradient raises ValueError; nothing is written
HillRaises ==
    /\ hillOut.status = "pending"
    /\ ~GradientDefined(hillIn)
    /\ hillOut' = [status |-> "GradientError"]
    /\ UNCHANGED hillIn

InitHill == RunIdle /\ ClipIdle /\ HillInit /\ ResIdle /\ LoadIdle
        /\ StepIdle /\ ParIdle

NextHill ==
    \/ HillReturns /\ UNCHANGED <<runVars, clipVars, resVars, loadVars, stepVars, parVars>>
    \/ HillRaises /\ UNCHANGED <<runVars, clipVars, resVars, loadVars, stepVars, parVars>>

SpecHill == InitHill /\ [][NextHill]_vars

----------------------------------------------------------------------------
(* resample_to_10m, lines 134-162.                                         *)
(*                                                                         *)
(* Heights, widths, pixel sizes and target sizes are integers. The scale   *)
(* target_res / src.res[0] is a double: it is held as the pair             *)
(* [num |-> target_res, den |-> src.res[0]] standing for the double        *)
(* nearest to num / den, and int(size / scale) is computed as IEEE 754     *)
(* double arithmetic computes it (round to nearest, ties to even, 53 bits  *)
(* of significand), by integer arithmetic on num, den and size. The        *)
(* components of the output transform are held as exact fractions; the     *)
(* rounding of their last bit is not represented. Pixel values are not     *)
(* represented.                                                            *)

\* floor(log2(n / d)) for positive integers n, d
RECURSIVE FloorLog2(_, _)
FloorLog2(n, d) ==
    IF n >= 2 * d THEN FloorLog2(n, 2 * d) + 1
    ELSE IF n < d THEN FloorLog2(2 * n, d) - 1
    ELSE 0

RECURSIVE Pow2(_)
Pow2(k) == IF k <= 0 THEN 1 ELSE 2 * Pow2(k - 1)

\* 2^p modulo m
RECURSIVE Pow2Mod(_, _)
Pow2Mod(p, m) == IF p <= 0 THEN 1 % m ELSE (2 * Pow2Mod(p - 1, m)) % m

IsPow2(k) == k = Pow2(FloorLog2(k, 1))

\* line 139 with real arithmetic in place of doubles: floor(size * r / t)
ExactQuot(size, t, r) == (size * r) \div t

\* line 138: scale = target_res / src.res[0]
ScaleOf_fixed10(target, res) == [num |-> 10, den |-> res]

ScaleOf(target, res) == [num |-> target, den |-> res]

\* Lines 138-139 for a positive scale: int(size / (t / r)) in doubles.
\* s = fl(t / r) has the significand round(t * 2^P / r) with
\* P = 52 - floor(log2(t / r)); rho is the remainder of t * 2^P by r and
\* `up` says that s was rounded up, by (r - rho) / (r * 2^P). When size * r
\* is not a multiple of t the quotient is not within a rounding of an
\* integer and int() gives the floor. When size * r = k * t, a scale that
\* was not rounded up gives k; one that was rounded up gives size / s a
\* little under k, and the division rounds it back to k only if it is
\* within half a unit in the last place below k.
FloatIntQuot(size, t, r) ==
    LET k    == (size * r) \div t
        e    == FloorLog2(t, r)
        x    == ((t % (2 * r)) * Pow2Mod(52 - e, 2 * r)) % (2 * r)
        rho  == x % r
        up   == (2 * rho > r) \/ (2 * rho = r /\ x >= r)
        E    == FloorLog2(k, 1)
        sh   == e - E
        L    == (IF IsPow2(k) THEN 2 ELSE 1) * k * 2 * (r - rho)
                    * Pow2(IF sh > 0 THEN sh ELSE 0)
        R    == t * Pow2(IF sh < 0 THEN -sh ELSE 0)
    IN  IF (size * r) % t # 0 THEN k
        ELSE IF rho = 0 \/ ~up THEN k
        ELSE IF L <= R THEN k
        ELSE k - 1

\* a slip: a size of at least one pixel whatever the scale
NewSize_atLeastOne(size, scale) ==
    IF scale.num > 0 /\ FloatIntQuot(size, scale.num, scale.den) >= 1
    THEN FloatIntQuot(size, scale.num, scale.den) ELSE 1

\* lines 139-140: int(size / scale); int() cuts towards zero
NewSize(size, scale) ==
    IF scale.num > 0 THEN FloatIntQuot(size, scale.num, scale.den)
    ELSE 0 - FloatIntQuot(size, 0 - scale.num, scale.den)

RECURSIVE Gcd(_, _)
Gcd(m, n) == IF n = 0 THEN m ELSE Gcd(n, m % n)

Abs(n) == IF n < 0 THEN 0 - n ELSE n

\* the fraction n / d in lowest terms, d > 0
Frac(n, d) ==
    LET g == Gcd(Abs(n), Abs(d))
        sg == IF d < 0 THEN -1 ELSE 1
    IN  [n |-> sg * (n \div g), d |-> sg * (d \div g)]

Whole(n) == Frac(n, 1)

\* x * scale for an integer x
TimesScale(x, scale) == Frac(x * scale.num, scale.den)

\* a slip: only the x scale of the transform is multiplied
ScaledTransform_xOnly(t, scale) ==
    [a |-> TimesScale(t.a, scale), e |-> Whole(t.e), c |-> Whole(t.c), f |-> Whole(t.f)]

\* line 142: src.transform * Affine.scale(scale, scale); the product of
\* (a, 0, c; 0, e, f) and (scale, 0, 0; 0, scale, 0)
ScaledTransform(t, scale) ==
    [a |-> TimesScale(t.a, scale), e |-> TimesScale(t.e, scale),
     c |-> Whole(t.c), f |-> Whole(t.f)]

NoMeta == [height |-> 0, width |-> 0]

\* What the call leaves behind. `readRejectsEmpty` says whether src.read
\* with an out_shape without pixels raises (line 153) or hands back an empty
\* array, in which case the directory is made (line 158) before the open
\* for writing refuses a raster without pixels (line 159).
ResampleTo10m(in, readRejectsEmpty) ==
    LET scale      == ScaleOf(in.target, in.transform.a)
        new_height == NewSize(in.height, scale)
        new_width  == NewSize(in.width, scale)
        kwargs     == [height |-> new_height, width |-> new_width,
                       transform |-> ScaledTransform(in.transform, scale),
                       count |-> in.count, crs |-> in.crs]
        Raised(at, madeDir) ==
            [status |-> "raised", line |-> at,
             dirExists |-> in.dirExists \/ madeDir, fileExists |-> FALSE,
             meta |-> NoMeta]
    IN  IF scale.num = 0 THEN Raised(139, FALSE)
        ELSE IF new_height < 0 \/ new_width < 0 THEN Raised(153, FALSE)
        ELSE IF new_height = 0 \/ new_width = 0
             THEN IF readRejectsEmpty THEN Raised(153, FALSE)
                  ELSE Raised(159, TRUE)
        ELSE [status |-> "written", line |-> 160, dirExists |-> TRUE,
              fileExists |-> TRUE, meta |-> kwargs]

\* rows and columns of the rasters resampled
MaxResDim == 9
\* rows and columns of one larger raster
ExampleDim == 1000
\* pixel sizes of the rasters resampled
MaxPixelSize == 7
\* target sizes run from -MaxNegTarget to MaxTarget
MaxNegTarget == 1
MaxTarget == 10

\* the calls looked at: rasters of up to MaxResDim rows and columns, and of
\* ExampleDim rows and columns, with pixels of 1 to MaxPixelSize across and
\* as high or one higher, and targets from -MaxNegTarget to MaxTarget
ResDims == (1..MaxResDim) \cup {ExampleDim}

ResInit ==
    /\ \E h \in ResDims, w \in ResDims, px \in 1..MaxPixelSize,
          tall \in {0, 1}, t \in (0 - MaxNegTarget)..MaxTarget, d \in BOOLEAN :
          resIn = [height |-> h, width |-> w,
                   transform |-> [a |-> px, e |-> 0 - (px + tall),
                                  c |-> 100, f |-> 200],
                   count |-> 1, crs |-> "raster", target |-> t,
                   dirExists |-> d]
    /\ resOut = [status |-> "pending"]

ResamplePending == resOut.status = "pending"

ResampleReturns ==
    /\ ResamplePending
    /\ \E rej \in BOOLEAN :
          /\ ResampleTo10m(resIn, rej).status = "written"
          /\ resOut' = ResampleTo10m(resIn, rej)
    /\ UNCHANGED resIn

ResampleRaises ==
    /\ ResamplePending
    /\ \E rej \in BOOLEAN :
          /\ ResampleTo10m(resIn, rej).status = "raised"
          /\ resOut' = ResampleTo10m(resIn, rej)
    /\ UNCHANGED resIn

InitResample == RunIdle /\ ClipIdle /\ HillIdle /\ ResInit /\ LoadIdle
        /\ StepIdle /\ ParIdle

NextResample ==
    \/ ResampleReturns /\ UNCHANGED <<runVars, clipVars, hillVars, loadVars, stepVars, parVars>>
    \/ ResampleRaises /\ UNCHANGED <<runVars, clipVars, hillVars, loadVars, stepVars, parVars>>

SpecResample == InitResample /\ [][NextResample]_vars

----------------------------------------------------------------------------
(* load_aoi_for_site, lines 33-53.                                         *)
(*                                                                         *)
(* The geopackage is a record [exists, name, features]: whether the file   *)
(* is there, the name of its layer and the rows of that layer in order. A  *)
(* row is a record [geometry, id] with the geometry a set of unit cells;   *)
(* a GeoDataFrame is a sequence of rows.                                   *)

\* line 40: aoi_path.exists()
StoreExists_assumed(store) == TRUE

StoreExists(store) == store.exists

\* line 43: gpd.read_file(aoi_path, layer=site_name) finds the layer of
\* that name, or raises
LayerFound(store, site_name) == store.name = site_name

\* a slip: the first row is kept and the others dropped
Dissolve_firstRow(gdf) == <<[geometry |-> gdf[1].geometry, id |-> gdf[1].id]>>

\* line 50: gdf.dissolve().reset_index(drop=True): one row, the union of
\* the geometries, with the other columns of the first row
Dissolve(gdf) ==
    <<[geometry |-> UNION {gdf[i].geometry : i \in 1..Len(gdf)},
       id |-> gdf[1].id]>>

NoRows == <<>>

LoadAoiForSite(store, site_name) ==
    IF ~StoreExists(store)
    THEN [status |-> "raised", error |-> "FileNotFoundError", line |-> 41, rows |-> NoRows]
    ELSE IF ~LayerFound(store, site_name)
    THEN [status |-> "raised", error |-> "LayerNotFound", line |-> 43, rows |-> NoRows]
    ELSE IF Len(store.features) = 0
    THEN [status |-> "raised", error |-> "ValueError", line |-> 46, rows |-> NoRows]
    ELSE LET gdf == IF Len(store.features) > 1 THEN Dissolve(store.features)
                    ELSE store.features
         IN  [status |-> "returned", error |-> "none", line |-> 53,
              rows |-> <<gdf[1]>>]

\* the geometries of the features: runs of cells of a strip, some of which
\* overlap, some of which touch and some of which lie apart
Run(x0, x1) == {<<x, 0>> : x \in x0..x1}

FeatureShapes == {Run(0, 1), Run(1, 2), Run(2, 3), Run(0, 0), Run(3, 3)}

RECURSIVE SeqsUpTo(_, _)
SeqsUpTo(S, n) ==
    IF n = 0 THEN {<<>>}
    ELSE SeqsUpTo(S, n - 1) \cup
         {Append(q, x) : q \in {p \in SeqsUpTo(S, n - 1) : Len(p) = n - 1}, x \in S}

LoadInit ==
    /\ \E e \in BOOLEAN, name \in {Sites[1], Sites[2]}, site \in {Sites[1], Sites[2]},
          shapes \in SeqsUpTo(FeatureShapes, MaxFeatures) :
          loadIn = [store |-> [exists |-> e, name |-> name,
                               features |-> [i \in 1..Len(shapes) |->
                                               [geometry |-> shapes[i], id |-> i]]],
                    site_name |-> site]
    /\ loadOut = [status |-> "pending"]

LoadReturns ==
    /\ loadOut.status = "pending"
    /\ LoadAoiForSite(loadIn.store, loadIn.site_name).status = "returned"
    /\ loadOut' = LoadAoiForSite(loadIn.store, loadIn.site_name)
    /\ UNCHANGED loadIn

LoadRaises ==
    /\ loadOut.status = "pending"
    /\ LoadAoiForSite(loadIn.store, loadIn.site_name).status = "raised"
    /\ loadOut' = LoadAoiForSite(loadIn.store, loadIn.site_name)
    /\ UNCHANGED loadIn

InitAoi == RunIdle /\ ClipIdle /\ HillIdle /\ ResIdle /\ LoadInit
        /\ StepIdle /\ ParIdle

NextAoi ==
    \/ LoadReturns /\ UNCHANGED <<runVars, clipVars, hillVars, resVars, stepVars, parVars>>
    \/ LoadRaises /\ UNCHANGED <<runVars, clipVars, hillVars, resVars, stepVars, parVars>>

SpecAoi == InitAoi /\ [][NextAoi]_vars

----------------------------------------------------------------------------
(* The raster handles of one stage call.                                   *)
(*                                                                         *)
(* clip_raster_to_aoi (lines 60-79), compute_hillshade (86-129) and        *)
(* resample_to_10m (136-160) have the same shape:                          *)
(*     with rasterio.open(in_path) as src:                                 *)
(*         ... read src, compute ...                                       *)
(*         out_path.parent.mkdir(parents=True, exist_ok=True)              *)
(*         with rasterio.open(out_path, "w", ...) as dst:                  *)
(*             dst.write(...)                                              *)
(* A handle is a record [path, mode]. A `with` block closes its handle     *)
(* when control leaves it, by its end or by an exception.                  *)

StageNames == {"clip", "hillshade", "resample"}

\* the statements that can raise: the open of the input, the body (read,
\* mask, gradient, sizes), the open of the output, the write
RaisePoints == {"none", "openIn", "body", "openOut", "write"}

SrcHandle == [path |-> StageInput(stepIn.stage, stepIn.site, stepIn.tile), mode |-> "r"]
DstHandle == [path |-> StageOutput(stepIn.stage, stepIn.site, stepIn.tile), mode |-> "w"]

StepInit ==
    /\ \E st \in StageNames, s \in SiteSet, fail \in RaisePoints :
       \E t \in TilesOf(s) :
          stepIn = [stage |-> st, site |-> s, tile |-> t, raises |-> fail]
    /\ step = [pc |-> "openIn", open |-> {}, done |-> <<>>]

\* control moves to pc with the handles in open, having done what
StepTo(pc_, open_, what) ==
    /\ step' = [pc |-> pc_, open |-> open_, done |-> Append(step.done, what)]
    /\ UNCHANGED stepIn

\* with rasterio.open(in_path) as src:  (lines 60, 86, 136)
OpenInput ==
    /\ step.pc = "openIn"
    /\ IF stepIn.raises = "openIn"
       THEN StepTo("unwind", step.open, "raise")
       ELSE StepTo("body", step.open \cup {SrcHandle}, "open src")

\* the statements up to the mkdir: src is read and the output computed
\* (lines 61-75, 87-125, 138-156)
Body ==
    /\ step.pc = "body"
    /\ IF stepIn.raises = "body"
       THEN StepTo("unwind", step.open, "raise")
       ELSE StepTo("mkdir", step.open, "read src")

\* out_path.parent.mkdir(parents=True, exist_ok=True)  (lines 77, 127, 158)
Mkdir ==
    /\ step.pc = "mkdir"
    /\ StepTo("openOut", step.open, "mkdir")

\* with rasterio.open(out_path, "w", ...) as dst:  (lines 78, 128, 159)
OpenOutput ==
    /\ step.pc = "openOut"
    /\ IF stepIn.raises = "openOut"
       THEN StepTo("unwind", step.open, "raise")
       ELSE StepTo("write", step.open \cup {DstHandle}, "open dst")

\* dst.write(...)  (lines 79, 129, 160)
Write ==
    /\ step.pc = "write"
    /\ IF stepIn.raises = "write"
       THEN StepTo("unwind", step.open, "raise")
       ELSE StepTo("closeOut", step.open, "write dst")

\* the end of the inner with block
CloseOutput ==
    /\ step.pc = "closeOut"
    /\ StepTo("closeIn", step.open \ {DstHandle}, "close dst")

\* the end of the outer with block, and the return
CloseInput ==
    /\ step.pc = "closeIn"
    /\ StepTo("returned", step.open \ {SrcHandle}, "close src")

\* a slip: no with blocks, the exception leaves the handles open
Unwind_leaking ==
    /\ step.pc = "unwind"
    /\ StepTo("raised", step.open, "leave")

\* an exception leaves the with blocks it is in, the inner one first, each
\* closing its handle, and then leaves the function
Unwind ==
    /\ step.pc = "unwind"
    /\ IF DstHandle \in step.open
       THEN StepTo("unwind", step.open \ {DstHandle}, "close dst")
       ELSE IF SrcHandle \in step.open
       THEN StepTo("unwind", step.open \ {SrcHandle}, "close src")
       ELSE StepTo("raised", step.open, "leave")

InitHandles == RunIdle /\ ClipIdle /\ HillIdle /\ ResIdle /\ LoadIdle
        /\ StepInit /\ ParIdle

NextHandles ==
    \/ OpenInput /\ UNCHANGED <<runVars, clipVars, hillVars, resVars, loadVars, parVars>>
    \/ Body /\ UNCHANGED <<runVars, clipVars, hillVars, resVars, loadVars, parVars>>
    \/ Mkdir /\ UNCHANGED <<runVars, clipVars, hillVars, resVars, loadVars, parVars>>
    \/ OpenOutput /\ UNCHANGED <<runVars, clipVars, hillVars, resVars, loadVars, parVars>>
    \/ Write /\ UNCHANGED <<runVars, clipVars, hillVars, resVars, loadVars, parVars>>
    \/ CloseOutput /\ UNCHANGED <<runVars, clipVars, hillVars, resVars, loadVars, parVars>>
    \/ CloseInput /\ UNCHANGED <<runVars, clipVars, hillVars, resVars, loadVars, parVars>>
    \/ Unwind /\ UNCHANGED <<runVars, clipVars, hillVars, resVars, loadVars, parVars>>

SpecHandles == InitHandles /\ [][NextHandles]_vars

----------------------------------------------------------------------------
(* The per-tile pipelines of process_site, lines 187-204, taken in any     *)
(* order.                                                                  *)
(*                                                                         *)
(* Every (site, tile) of SITE_TILE_MAP has its three stage calls, made in  *)
(* their order; the calls of different pairs are interleaved freely. The   *)
(* filesystem is the set of directories and a function from the paths of   *)
(* the files to their contents. A content is a record saying what kind of  *)
(* raster it is, from which tile and AOI it derives and what kind of       *)
(* raster it was made from: a stage is a function of what it reads.        *)

\* the (site, tile) pairs of SITE_TILE_MAP
Pairs == UNION {{<<s, t>> : t \in TilesOf(s)} : s \in SiteSet}

RawContent(tile) == [kind |-> "raw", tile |-> tile, site |-> "none", from |-> "none"]
Absent == [kind |-> "absent", tile |-> "none", site |-> "none", from |-> "none"]

\* what a stage finds at a path
ContentAt(fs, path) == IF path \in DOMAIN fs.files THEN fs.files[path] ELSE Absent

\* what a stage makes of the raster it reads; the clipper also uses the
\* AOI of the site
StageResult(stage, site, read) ==
    CASE stage = "clip" ->
            [kind |-> "clipped", tile |-> read.tile, site |-> site, from |-> read.kind]
      [] stage = "hillshade" ->
            [kind |-> "hillshade", tile |-> read.tile, site |-> read.site, from |-> read.kind]
      [] stage = "resample" ->
            [kind |-> "dtm10", tile |-> read.tile, site |-> read.site, from |-> read.kind]

\* the filesystem after a stage call: the output's directory is made if it
\* is not there and the output file is created or replaced
ApplyStage(fs, stage, site, tile) ==
    LET out == StageOutput(stage, site, tile)
        content == StageResult(stage, site, ContentAt(fs, StageInput(stage, site, tile)))
    IN  [dirs  |-> fs.dirs \cup {out.dir},
         files |-> [p \in DOMAIN fs.files \cup {out} |->
                        IF p = out THEN content ELSE fs.files[p]]]

\* the raw tiles in place, no output yet
ParFsInit ==
    [dirs  |-> {<<"RAW_LIDAR_DIR">>, <<"OUT_DIR">>},
     files |-> [p \in {RawTilePath(t) : t \in AllTiles} |->
                   RawContent(CHOOSE t \in AllTiles : RawTilePath(t) = p)]]

NextStage(stage) ==
    CASE stage = "clip" -> "hillshade"
      [] stage = "hillshade" -> "resample"
      [] stage = "resample" -> "done"

InProgress(pr) == parPc[pr] \in {"hillshade", "resample"}

ParInit ==
    /\ parPc = [pr \in Pairs |-> "clip"]
    /\ parFs = ParFsInit
    /\ parLog = [rw |-> [pr \in Pairs |-> [reads |-> {}, writes |-> {}]],
                 interleaved |-> FALSE]

\* the pipeline of pr makes its next stage call
ParStage(pr, stage) ==
    /\ parPc[pr] = stage
    /\ parPc' = [parPc EXCEPT ![pr] = NextStage(stage)]
    /\ parFs' = ApplyStage(parFs, stage, pr[1], pr[2])
    /\ parLog' =
         [rw |-> [parLog.rw EXCEPT
                    ![pr].reads = @ \cup {StageInput(stage, pr[1], pr[2])},
                    ![pr].writes = @ \cup {StageOutput(stage, pr[1], pr[2])}],
          interleaved |-> parLog.interleaved
                             \/ \E other \in Pairs \ {pr} : InProgress(other)]

ParClip == \E pr \in Pairs : ParStage(pr, "clip")
ParHillshade == \E pr \in Pairs : ParStage(pr, "hillshade")
ParResample == \E pr \in Pairs : ParStage(pr, "resample")

InitPipelines == RunIdle /\ ClipIdle /\ HillIdle /\ ResIdle /\ LoadIdle
        /\ StepIdle /\ ParInit

NextPipelines ==
    \/ ParClip /\ UNCHANGED <<runVars, clipVars, hillVars, resVars, loadVars, stepVars>>
    \/ ParHillshade /\ UNCHANGED <<runVars, clipVars, hillVars, resVars, loadVars, stepVars>>
    \/ ParResample /\ UNCHANGED <<runVars, clipVars, hillVars, resVars, loadVars, stepVars>>

SpecPipelines == InitPipelines /\ [][NextPipelines]_vars

----------------------------------------------------------------------------
(* Claims about the run *)

Range(q) == {q[i] : i \in 1..Len(q)}

StageErrors == {"NoOverlapError", "HillshadeError", "InvalidResolutionError"}

RunEnded == pc \in {"done", "aborted"}

\* every configured tile file is present and every site has an AOI
InputsComplete ==
    /\ rawTiles = AllTiles
    /\ aoiStore.exists
    /\ \A s \in SiteSet : aoiStore.layers[s] >= 1

OutputsOf(site, tile) ==
    {ClippedPath(site, tile), HillshadePath(site, tile), Dtm10mPath(site, tile)}

\* the position of the tile in the site's list
IndexOf(site, tile) ==
    CHOOSE i \in 1..Len(SITE_TILE_MAP[site]) : SITE_TILE_MAP[site][i] = tile

StagesInvokedFor(site, tile) ==
    {e \in Range(invoked) : e[1] = site /\ e[2] = tile}

\* C1: when a stage fails for one tile, that tile is skipped and every other
\* (site, tile) of the mapping is still processed: at the end of the run its
\* clip has been called, and if its three stages ran its three files exist.
C1_OtherTilesStillProcessed ==
    (RunEnded /\ InputsComplete /\ raised \in StageErrors) =>
        \A s \in SiteSet : \A t \in TilesOf(s) :
            <<s, t>> # raisedAt =>
                /\ <<s, t, "clip">> \in Range(invoked)
                /\ (<<s, t, "resample">> \in Range(invoked)
                       => OutputsOf(s, t) \subseteq files)

\* C2 as stated: for a site of two tiles of which one is absent, whichever
\* its position, MissingTileError is raised before either tile is clipped,
\* shaded or resampled and no output file exists for the site.
C2_NothingProcessedBeforeMissingTile ==
    (raised = "MissingTileError" /\ Len(SITE_TILE_MAP[raisedAt[1]]) = 2) =>
        \A t \in TilesOf(raisedAt[1]) :
            /\ StagesInvokedFor(raisedAt[1], t) = {}
            /\ OutputsOf(raisedAt[1], t) \cap files = {}

\* C2 as amended: for a site of two tiles, when MissingTileError is raised
\* for a tile, no stage has been called and no file written for that tile or
\* a later one, while every tile listed before it has been clipped, shaded
\* and resampled and has its three output files.
C2_MissingTileStopsAtItsPosition ==
    (raised = "MissingTileError" /\ Len(SITE_TILE_MAP[raisedAt[1]]) = 2) =>
        LET s == raisedAt[1]
            k == IndexOf(s, raisedAt[2])
        IN  \A i \in 1..Len(SITE_TILE_MAP[s]) :
                LET t == SITE_TILE_MAP[s][i]
                IN  IF i >= k
                    THEN /\ StagesInvokedFor(s, t) = {}
                         /\ OutputsOf(s, t) \cap files = {}
                    ELSE /\ Cardinality(StagesInvokedFor(s, t)) = 3
                         /\ OutputsOf(s, t) \subseteq files

\* the second tile of the two-tile site is the absent one
C2_Witness ==
    /\ raised = "MissingTileError"
    /\ raisedAt = <<"desborough_bng", "SP78se">>
    /\ OutputsOf("desborough_bng", "SP88sw") \subseteq files

\* C3: once the missing-tile error is raised, no stage is called and no
\* output file is written any more, for any later tile or site.
C3_MissingTileFatalForRun ==
    [][raised = "MissingTileError" => (invoked' = invoked /\ files' = files)]_vars

\* the error is raised for the first site after work was done, with tiles
\* and sites still to come
C3_Witness ==
    /\ raised = "MissingTileError"
    /\ raisedAt[1] = "desborough_bng"
    /\ Len(invoked) > 0
    /\ \E s \in SiteSet : \E t \in TilesOf(s) :
           t \in rawTiles /\ StagesInvokedFor(s, t) = {}

\* C4: after a run in which nothing failed, the files written are exactly
\* the clipped DTM, the hillshade and the 10 m DTM of every (site, tile),
\* each in the site's output directory, three distinct files per tile.
C4_ExactlyThreeFilesPerTile ==
    (pc = "done" /\ raised = "none") =>
        /\ files = UNION {UNION {OutputsOf(s, t) : t \in TilesOf(s)} : s \in SiteSet}
        /\ \A s \in SiteSet : \A t \in TilesOf(s) :
              /\ Cardinality(OutputsOf(s, t) \cap files) = 3
              /\ \A f \in OutputsOf(s, t) : f.dir = SiteOutDir(s) /\ f.dir \in dirs
        /\ Cardinality(files) = 3 * Cardinality(AllTiles)

C4_Witness ==
    /\ pc = "done"
    /\ raised = "none"
    /\ Cardinality(files) = 21

----------------------------------------------------------------------------
(* Claims about clip_raster_to_aoi *)

ClipDone == clipOut.status \in {"ok", "NoOverlapError"}

\* the cells of the AOI and of the raster, both in the raster's CRS
AoiCells == ToCrs(clipIn.aoi, clipIn.raster.crs).cells
RasterCells ==
    {CellOfPixel(clipIn.raster.transform, px) :
        px \in PixelsOf(clipIn.raster.height, clipIn.raster.width)}

\* the source pixel that covers a cell of the raster
PixelOfCell(cell) ==
    CHOOSE px \in PixelsOf(clipIn.raster.height, clipIn.raster.width) :
        CellOfPixel(clipIn.raster.transform, px) = cell

\* the bounding boxes of the AOI and of the raster share no area
ExtentsDisjoint ==
    LET b == BoundsOf(AoiCells)
        r == BoundsOf(RasterCells)
    IN  \/ b.maxx <= r.minx \/ b.minx >= r.maxx
        \/ b.maxy <= r.miny \/ b.miny >= r.maxy

\* C5: when the AOI's extent does not intersect the raster's, the clip
\* raises NoOverlapError and writes no raster.
C5_DisjointRaisesNoOverlap ==
    (ClipDone /\ ExtentsDisjoint) =>
        /\ clipOut.status = "NoOverlapError"
        /\ clipOut.raster = NoRaster

C5_Witness ==
    /\ ClipDone
    /\ ExtentsDisjoint
    /\ clipIn.aoi.crs # clipIn.raster.crs
    /\ BoundsOf(AoiCells).maxx = BoundsOf(RasterCells).minx

\* C6: when the AOI contains the raster's extent, the clipped raster has the
\* height, width and pixel values of the source.
C6_ContainingAoiIsNoOp ==
    (ClipDone /\ RasterCells \subseteq AoiCells) =>
        /\ clipOut.status = "ok"
        /\ clipOut.raster.height = clipIn.raster.height
        /\ clipOut.raster.width = clipIn.raster.width
        /\ clipOut.raster.data = clipIn.raster.data

C6_Witness ==
    /\ ClipDone
    /\ RasterCells \subseteq AoiCells
    /\ RasterCells # AoiCells
    /\ clipIn.raster.height = MaxDim
    /\ clipIn.raster.width >= 2

\* the outside of the AOI is nodata (0 when undeclared) and the inside is
\* the source, pixel by pixel of the output
C7_PixelsMasked ==
    \A px \in PixelsOf(clipOut.raster.height, clipOut.raster.width) :
        LET cell == CellOfPixel(clipOut.raster.transform, px)
        IN  /\ cell \in RasterCells
            /\ clipOut.raster.data[px] =
                   IF cell \in AoiCells
                   THEN clipIn.raster.data[PixelOfCell(cell)]
                   ELSE IF clipIn.raster.nodata.declared
                        THEN clipIn.raster.nodata.value
                        ELSE 0

\* C7 as stated: the output has the dimensions of the AOI's bounding box in
\* pixel space; outside pixels hold nodata, inside pixels the source value.
C7_OutputIsAoiBoundingBox ==
    clipOut.status = "ok" =>
        LET b == BoundsOf(AoiCells)
        IN  /\ clipOut.raster.width = (b.maxx - b.minx) \div clipIn.raster.transform.a
            /\ clipOut.raster.height = (b.maxy - b.miny) \div (-clipIn.raster.transform.e)
            /\ C7_PixelsMasked

\* C7 as amended: the output covers the AOI's bounding box cut to the
\* raster's extent; outside pixels hold nodata, inside pixels the source value.
C7_OutputIsBoundingBoxWithinRaster ==
    clipOut.status = "ok" =>
        LET b == BoundsOf(AoiCells)
            r == BoundsOf(RasterCells)
            t == clipOut.raster.transform
        IN  /\ t.c = Max({b.minx, r.minx})
            /\ t.f = Min({b.maxy, r.maxy})
            /\ t.c + clipOut.raster.width * t.a = Min({b.maxx, r.maxx})
            /\ t.f + clipOut.raster.height * t.e = Max({b.miny, r.miny})
            /\ C7_PixelsMasked

\* an AOI with a corner cut that reaches beyond the raster, on a raster
\* without nodata: output pixels inside and outside the AOI
C7_Witness ==
    /\ clipOut.status = "ok"
    /\ ~clipIn.raster.nodata.declared
    /\ ~(AoiCells \subseteq RasterCells)
    /\ clipOut.raster.width < clipIn.raster.width
    /\ \E px \in PixelsOf(clipOut.raster.height, clipOut.raster.width) :
           CellOfPixel(clipOut.raster.transform, px) \notin AoiCells
    /\ \E px \in PixelsOf(clipOut.raster.height, clipOut.raster.width) :
           CellOfPixel(clipOut.raster.transform, px) \in AoiCells

\* C8: the mask is made with the AOI in the raster's CRS, and the output
\* keeps the raster's CRS and pixel spacing.
C8_AoiReprojectedNotRaster ==
    ClipDone =>
        /\ clipOut.maskCrs = clipIn.raster.crs
        /\ clipOut.status = "ok" =>
              /\ clipOut.raster.crs = clipIn.raster.crs
              /\ clipOut.raster.transform.a = clipIn.raster.transform.a
              /\ clipOut.raster.transform.e = clipIn.raster.transform.e
              /\ \A px \in PixelsOf(clipOut.raster.height, clipOut.raster.width) :
                    clipOut.raster.data[px] = clipIn.raster.data[
                        PixelOfCell(CellOfPixel(clipOut.raster.transform, px))]
                    \/ CellOfPixel(clipOut.raster.transform, px) \notin AoiCells

C8_Witness ==
    /\ clipOut.status = "ok"
    /\ clipIn.aoi.crs # clipIn.raster.crs
    /\ clipIn.aoi.cells # AoiCells
    /\ \E px \in PixelsOf(clipOut.raster.height, clipOut.raster.width) :
           CellOfPixel(clipOut.raster.transform, px) \in AoiCells

----------------------------------------------------------------------------
(* Claims about compute_hillshade *)

HillPixels == PixelsOf(hillIn.height, hillIn.width)

\* the nodata mask of the input: the pixels missing after lines 87-88
MissingPixels ==
    {px \in HillPixels :
        hillIn.nodata.declared /\ hillIn.data[px] = hillIn.nodata.value}

ZeroPixels == {px \in HillPixels : hillOut.data[px] = 0}

\* a pixel with its four neighbours in the raster
Interior(px) ==
    /\ px[1] > 0 /\ px[1] < hillIn.height - 1
    /\ px[2] > 0 /\ px[2] < hillIn.width - 1

\* every non-missing pixel has the same elevation (or none is left)
FlatSurface ==
    \A px \in HillPixels \ MissingPixels : \A py \in HillPixels \ MissingPixels :
        hillIn.data[px] = hillIn.data[py]

\* C9: every pixel whose elevation is the declared nodata value is 0 in the
\* hillshade, whatever its neighbours are, inside the raster as on its edge.
C9_NodataPixelsAreZero ==
    hillOut.status = "ok" => \A px \in MissingPixels : hillOut.data[px] = 0

\* C10 as stated: the hillshade of a flat (or wholly missing) surface is
\* all zero, made without dividing by zero, and its zero pixels are exactly
\* the nodata mask of the input.
C10_FlatZeroSetIsNodataMask ==
    (hillOut.status # "pending" /\ FlatSurface) =>
        /\ hillOut.status = "ok"
        /\ ZeroPixels = HillPixels
        /\ ~hillOut.dividedByZero
        /\ ZeroPixels = MissingPixels

\* C10 as amended: the hillshade of a flat (or wholly missing) surface of at
\* least 2 x 2 pixels is all zero, made without dividing by zero; its zero
\* pixels are the whole raster, which contains the nodata mask of the input
\* and equals it only when every pixel is missing.  A raster with fewer than
\* 2 rows or columns gives no hillshade.
C10_FlatIsAllZero ==
    (hillOut.status # "pending" /\ FlatSurface) =>
        IF GradientDefined(hillIn)
        THEN /\ hillOut.status = "ok"
             /\ ZeroPixels = HillPixels
             /\ ~hillOut.dividedByZero
             /\ MissingPixels \subseteq ZeroPixels
             /\ (ZeroPixels = MissingPixels) <=> (MissingPixels = HillPixels)
        ELSE hillOut.status = "GradientError"

\* a flat surface with one interior pixel missing
C10_Witness ==
    /\ hillOut.status = "ok"
    /\ FlatSurface
    /\ \E px \in MissingPixels : Interior(px)
    /\ MissingPixels # HillPixels
    /\ \E px \in HillPixels \ MissingPixels : hillIn.data[px] > 0


----------------------------------------------------------------------------
(* Claims about resample_to_10m *)

ResampleDone == resOut.status \in {"written", "raised"}
ResampleWritten == resOut.status = "written"

\* the pixel size the code takes for both axes, src.res[0]
SourcePixelSize == resIn.transform.a

\* the fraction q is x times target_size / source_pixel_size
IsScaled(q, x) == q.n * SourcePixelSize = x * resIn.target * q.d

\* C11: whenever target_size / source_pixel_size > 0 and a raster is written,
\* its height is floor(source_height * source_pixel_size / target_size), and
\* its width is floor(source_width * source_pixel_size / target_size).
C11_SizeIsFloorOfQuotient ==
    (ResampleWritten /\ resIn.target > 0) =>
        /\ resOut.meta.height = ExactQuot(resIn.height, resIn.target, SourcePixelSize)
        /\ resOut.meta.width = ExactQuot(resIn.width, resIn.target, SourcePixelSize)

\* C12: the output transform has both scale terms of the source multiplied
\* by target_size / source_pixel_size and the translation terms of the
\* source; a raster of ExampleDim x ExampleDim pixels of size 1 resampled to
\* 10 gives 100 x 100 pixels with scale terms 10 and -10.
C12_TransformScaledOriginKept ==
    ResampleWritten =>
        /\ IsScaled(resOut.meta.transform.a, resIn.transform.a)
        /\ IsScaled(resOut.meta.transform.e, resIn.transform.e)
        /\ resOut.meta.transform.c = Whole(resIn.transform.c)
        /\ resOut.meta.transform.f = Whole(resIn.transform.f)
        /\ ( /\ resIn.height = ExampleDim /\ resIn.width = ExampleDim
             /\ resIn.transform.a = 1 /\ resIn.transform.e = -1
             /\ resIn.target = 10 )
           => /\ resOut.meta.height = 100 /\ resOut.meta.width = 100
              /\ resOut.meta.transform.a = Whole(10 * resIn.transform.a)
              /\ resOut.meta.transform.e = Whole(10 * resIn.transform.e)

C12_Witness ==
    /\ ResampleWritten
    /\ resIn.height = ExampleDim /\ resIn.width = ExampleDim
    /\ resIn.transform.a = 1 /\ resIn.transform.e = -1 /\ resIn.target = 10
    /\ resOut.meta.height = 100

\* C13: with the target size equal to the source pixel size the call writes
\* a raster with the height, the width and the transform of the source.
C13_ScaleOneChangesNothing ==
    (ResampleDone /\ resIn.target = SourcePixelSize) =>
        /\ ResampleWritten
        /\ resOut.meta.height = resIn.height
        /\ resOut.meta.width = resIn.width
        /\ resOut.meta.transform = [k \in {"a", "e", "c", "f"} |-> Whole(resIn.transform[k])]

C13_Witness ==
    /\ ResampleWritten
    /\ resIn.target = SourcePixelSize
    /\ SourcePixelSize > 1
    /\ resIn.height > 1 /\ resIn.width > 1 /\ resIn.height # resIn.width
    /\ resIn.transform.e # 0 - resIn.transform.a

\* the scale is not positive, or the raster is less than one target pixel
\* high or wide
DegenerateResampling ==
    \/ resIn.target <= 0
    \/ resIn.height * SourcePixelSize < resIn.target
    \/ resIn.width * SourcePixelSize < resIn.target

\* C14: whenever the scale is <= 0 or the resulting height or width is less
\* than one pixel, the call raises and writes no raster.
C14_DegenerateRaisesWritesNothing ==
    (ResampleDone /\ DegenerateResampling) =>
        /\ resOut.status = "raised"
        /\ ~resOut.fileExists

\* a target coarser than the raster itself, and a target of zero or less
C14_Witness ==
    /\ resOut.status = "raised" /\ ~resOut.fileExists
    /\ resIn.target > 0
    /\ resIn.height * SourcePixelSize < resIn.target

C14_WitnessNonPositive ==
    /\ resOut.status = "raised" /\ ~resOut.fileExists
    /\ resIn.target <= 0


----------------------------------------------------------------------------
(* Further claims about the run *)

\* the (site, tile) pairs of the mapping in the order the run takes them
RunOrder ==
    LET RECURSIVE From(_)
        From(i) == IF i > Len(Sites) THEN <<>>
                   ELSE [j \in 1..Len(SITE_TILE_MAP[Sites[i]]) |->
                            <<Sites[i], SITE_TILE_MAP[Sites[i]][j]>>] \o From(i + 1)
    IN  From(1)

PositionOf(site, tile) ==
    CHOOSE i \in 1..Len(RunOrder) : RunOrder[i] = <<site, tile>>

\* C15: when the resampler fails for a tile, the tile's clipped DTM and
\* hillshade have been written and remain, only its coarse DTM is missing,
\* and the run goes on: every tile after it is still clipped.
C15_ResamplerFailureSkipsOnlyCoarseDtm ==
    (RunEnded /\ InputsComplete /\ raised = "InvalidResolutionError") =>
        /\ ClippedPath(raisedAt[1], raisedAt[2]) \in files
        /\ HillshadePath(raisedAt[1], raisedAt[2]) \in files
        /\ Dtm10mPath(raisedAt[1], raisedAt[2]) \notin files
        /\ \A i \in 1..Len(RunOrder) :
              i > PositionOf(raisedAt[1], raisedAt[2]) =>
                  <<RunOrder[i][1], RunOrder[i][2], "clip">> \in Range(invoked)


----------------------------------------------------------------------------
(* Claims about load_aoi_for_site *)

LoadDone == loadOut.status \in {"returned", "raised"}
LayerFeatures == loadIn.store.features
FeatureGeometries == {LayerFeatures[i].geometry : i \in 1..Len(LayerFeatures)}

\* the store is there, it has the layer of the site and the layer has rows
Loadable ==
    /\ loadIn.store.exists
    /\ loadIn.store.name = loadIn.site_name
    /\ Len(LayerFeatures) >= 1

\* C16: for a layer of one or more features the loader returns exactly one
\* geometry: the feature's own when there is one feature, the union of the
\* features' geometries when there are several.
C16_OneGeometryTheUnion ==
    (LoadDone /\ Loadable) =>
        /\ loadOut.status = "returned"
        /\ Len(loadOut.rows) = 1
        /\ Len(LayerFeatures) = 1 => loadOut.rows[1] = LayerFeatures[1]
        /\ \A c \in Run(0, 3) :
              c \in loadOut.rows[1].geometry <=> \E g \in FeatureGeometries : c \in g

\* three features, each overlapping the next, no two alike
C16_Witness ==
    /\ loadOut.status = "returned"
    /\ Len(LayerFeatures) = 3
    /\ Cardinality(FeatureGeometries) = 3
    /\ \A i \in 1..2 : LayerFeatures[i].geometry \cap LayerFeatures[i + 1].geometry # {}
    /\ \A g \in FeatureGeometries : g # loadOut.rows[1].geometry

\* C17: the loader raises and returns no geometry when the store is
\* missing, when no layer has the site's name and when the layer of the
\* site has no feature.
C17_NotFoundCasesRaise ==
    (LoadDone /\ ( \/ ~loadIn.store.exists
                   \/ loadIn.store.name # loadIn.site_name
                   \/ Len(LayerFeatures) = 0 )) =>
        /\ loadOut.status = "raised"
        /\ loadOut.rows = <<>>

\* the store is missing though the layer is in the description of it
C17_Witness ==
    /\ loadOut.status = "raised" /\ loadOut.line = 41
    /\ loadIn.store.name = loadIn.site_name /\ Len(LayerFeatures) >= 1

C17_WitnessNoLayer ==
    /\ loadOut.status = "raised" /\ loadOut.line = 43
    /\ loadIn.store.exists /\ Len(LayerFeatures) >= 1

C17_WitnessNoFeature ==
    /\ loadOut.status = "raised" /\ loadOut.line = 46
    /\ loadIn.store.exists /\ loadIn.store.name = loadIn.site_name


\* C18: when the AOI of a site cannot be loaded, no stage has been called
\* for any tile of the site, no tile of it has been read, its output
\* directory has not been made and no output file of the site exists.
C18_AoiFailureBeforeAnyTile ==
    raised = "NotFoundError" =>
        /\ pc = "aborted"
        /\ \A e \in Range(invoked) : e[1] # raisedAt[1]
        /\ \A r \in Range(reads) : r.site # raisedAt[1]
        /\ SiteOutDir(raisedAt[1]) \notin dirs
        /\ \A f \in files : f.dir # SiteOutDir(raisedAt[1])

\* the second site's AOI fails to load after the first site was processed
C18_Witness ==
    /\ raised = "NotFoundError"
    /\ raisedAt[1] = Sites[2]
    /\ OutputsOf(Sites[1], SITE_TILE_MAP[Sites[1]][1]) \subseteq files


\* the stages called for a tile, in the order of the calls
StageOrderOf(site, tile) ==
    LET ForTile(e) == e[1] = site /\ e[2] = tile
        calls == SelectSeq(invoked, ForTile)
    IN  [i \in 1..Len(calls) |-> calls[i][3]]

\* C19: the stages of a tile are called in the order clip, hillshade,
\* resample; the relief shader and the resampler are given the clipped DTM
\* of their own tile, not the raw tile, and that file has been written by
\* an earlier call of the clipper for the tile when they are called.
C19_StagesInOrderOnClippedDtm ==
    /\ \A s \in SiteSet : \A t \in TilesOf(s) :
          StageOrderOf(s, t) \in {<<>>, <<"clip">>, <<"clip", "hillshade">>,
                                  <<"clip", "hillshade", "resample">>}
    /\ Len(reads) = Len(invoked)
    /\ \A i \in 1..Len(reads) :
          /\ invoked[i] = <<reads[i].site, reads[i].tile, reads[i].stage>>
          /\ reads[i].stage \in {"hillshade", "resample"} =>
                /\ reads[i].path = ClippedPath(reads[i].site, reads[i].tile)
                /\ reads[i].path # RawTilePath(reads[i].tile)
                /\ reads[i].written
                /\ \E j \in 1..(i - 1) :
                      invoked[j] = <<reads[i].site, reads[i].tile, "clip">>

\* a tile of the second site has gone through its three stages
C19_Witness ==
    /\ StageOrderOf(Sites[2], SITE_TILE_MAP[Sites[2]][1])
           = <<"clip", "hillshade", "resample">>
    /\ \E i \in 1..Len(reads) :
          /\ reads[i].stage = "resample" /\ reads[i].site = Sites[2]
          /\ reads[i].written


----------------------------------------------------------------------------
(* Further claims about compute_hillshade *)

\* the gradient of the elevation along the columns of the raster (the
\* horizontal axis) and along its rows (the vertical axis), as numerators
\* over twice the pixel size
ColumnGradient(px) == GradientNum(ReadDem(hillIn), hillIn.width, 2, px)
RowGradient(px) == GradientNum(ReadDem(hillIn), hillIn.height, 1, px)

\* C20: dz/dx is the gradient of the elevation along the column axis over
\* the x pixel size and dz/dy the gradient along the row axis over the y
\* pixel size; slope and aspect, and so the illumination, are computed from
\* these two fields.
C20_DzdxAlongColumnsDzdyAlongRows ==
    hillOut.status = "ok" =>
        /\ hillOut.x_res = hillIn.transform.a
        /\ hillOut.y_res = 0 - hillIn.transform.e
        /\ \A px \in HillPixels :
              /\ hillOut.dzdx[px] = ColumnGradient(px)
              /\ hillOut.dzdy[px] = RowGradient(px)
              /\ hillOut.hs[px] = Illumination(hillOut.dzdx[px], hillOut.dzdy[px],
                                               hillOut.x_res, hillOut.y_res)


\* the least and the greatest illumination over the pixels where it is a
\* number
HsMin == NanMin(hillOut.hs)
HsMax == NanMax(hillOut.hs)

\* C26: when the minimum and maximum illumination are finite and differ,
\* every output value is in 0..255, every pixel at the maximum is written
\* as 255 and every non-missing pixel at the minimum is written as 0, the
\* value declared as the nodata of the output.
C26_NormalisedToByteRange ==
    (hillOut.status = "ok" /\ ~HsMin.nan /\ ~HsMax.nan /\ HsMax.v # HsMin.v) =>
        /\ \A px \in HillPixels :
              /\ hillOut.data[px] \in 0..255
              /\ hillOut.hs[px] = HsMax => hillOut.data[px] = 255
              /\ (px \notin MissingPixels /\ hillOut.hs[px] = HsMin)
                    => hillOut.data[px] = hillOut.nodata
        /\ hillOut.nodata = 0
        /\ hillOut.dtype = "uint8"

\* a surface with a brightest, a darkest and an in-between pixel, and a
\* missing one
C26_Witness ==
    /\ hillOut.status = "ok"
    /\ ~HsMin.nan /\ ~HsMax.nan /\ HsMax.v # HsMin.v
    /\ \E px \in HillPixels : hillOut.data[px] = 255
    /\ \E px \in HillPixels \ MissingPixels :
          hillOut.hs[px] = HsMin /\ hillOut.data[px] = 0
    /\ \E px \in HillPixels : hillOut.data[px] \in 1..254
    /\ MissingPixels # {}


----------------------------------------------------------------------------
(* Further claims about clip_raster_to_aoi *)

\* C25: when the clip fails in mask, the output directory and the output
\* file are as they were before the call: a directory that was absent is
\* not made, a file that was absent is not created, and a file that was
\* there is not opened for writing, so not emptied.
C25_MaskFailureLeavesFilesystem ==
    clipOut.status = "NoOverlapError" =>
        /\ clipOut.dirExists = clipIn.dirExists
        /\ clipOut.fileExists = clipIn.fileExists
        /\ ~clipOut.fileOpened

\* the clip fails with an output of an earlier run in place
C25_Witness ==
    /\ clipOut.status = "NoOverlapError"
    /\ clipIn.dirExists /\ clipIn.fileExists

\* the clip fails with no output directory yet
C25_WitnessNoDirectory ==
    /\ clipOut.status = "NoOverlapError"
    /\ ~clipIn.dirExists /\ ~clipOut.dirExists


----------------------------------------------------------------------------
(* Claims about files and the AOI across the run *)

\* C21: in every step of the run the raw tiles and the AOI store are left
\* as they were, and a stage that writes opens one path, its own output
\* path, which is not the path it was given to read, not a raw tile, not
\* the AOI store and not a path written earlier in the run.
C21_NoRasterMutatedInPlace ==
    [][ /\ rawTiles' = rawTiles
        /\ aoiStore' = aoiStore
        /\ writes' # writes =>
              LET w == writes'[Len(writes')]
                  r == reads'[Len(reads')]
              IN  /\ writes' = Append(writes, w)
                  /\ reads' = Append(reads, r)
                  /\ <<r.stage, r.site, r.tile>> = <<w.stage, w.site, w.tile>>
                  /\ w.path = StageOutput(w.stage, w.site, w.tile)
                  /\ w.path # r.path
                  /\ \A t \in AllTiles : w.path # RawTilePath(t)
                  /\ w.path # RawAoiPath
                  /\ \A i \in 1..Len(writes) : writes[i].path # w.path
                  /\ files' = files \cup {w.path}
        /\ writes' = writes => files' = files ]_vars

\* the three stages of the first tile and the clip of the second have written
C21_Witness ==
    /\ Len(writes) >= 4
    /\ {writes[i].stage : i \in 1..3} = {"clip", "hillshade", "resample"}
    /\ writes[4].tile # writes[1].tile
    /\ \A i \in 1..Len(writes) : writes[i].path \in files


\* C23: load_aoi_for_site is called at most once for a site, and once
\* before any clip of the site; the frame bound to `aoi` stays the frame
\* that call returned while the site's tiles are processed, and the frame
\* given to each clip is that frame, in geometry and in CRS, also after an
\* earlier clip of the site has reprojected it.
C23_AoiLoadedOnceAndUnchanged ==
    /\ \A s \in SiteSet : aoiUse.loads[s] <= 1
    /\ pc \in {"tile", "clip", "hillshade", "resample"} =>
          /\ aoiUse.loads[CurSite] = 1
          /\ aoi = aoiUse.loaded
          /\ aoi.site = CurSite
    /\ aoiUse.passed # NoAoi =>
          /\ aoiUse.passed = aoiUse.loaded
          /\ aoiUse.passed.crs = aoiUse.loaded.crs
          /\ aoiUse.passed.cells = aoiUse.loaded.cells
          /\ aoiUse.loads[aoiUse.passed.site] = 1

\* the second tile of a site is clipped after the clip of the first tile
\* reprojected the AOI
C23_Witness ==
    /\ pc = "hillshade"
    /\ tileIdx = 2
    /\ aoiUse.reprojected
    /\ aoiUse.passed = aoiUse.loaded
    /\ Len(invoked) >= 2
    /\ invoked[Len(invoked) - 3] = <<CurSite, SITE_TILE_MAP[CurSite][1], "clip">>


----------------------------------------------------------------------------
(* Claims about raster handles *)

StageEnded == step.pc \in {"returned", "raised"}

\* the place of an entry in step.done, 0 when it is not there
DoneAt(what) ==
    IF \E i \in 1..Len(step.done) : step.done[i] = what
    THEN CHOOSE i \in 1..Len(step.done) : step.done[i] = what
    ELSE 0

\* C22 as stated: a handle is held for one read or one write only: the
\* input's handle is released before the output is opened for writing, so
\* no two handles are open at once, and none is open when the stage has
\* returned or raised.
C22_InputReleasedBeforeOutputOpened ==
    /\ DstHandle \in step.open => SrcHandle \notin step.open
    /\ Cardinality(step.open) <= 1
    /\ StageEnded => step.open = {}

\* C22 as amended: the input's handle is open from its opening to the end
\* of the stage, also while the output is opened and written; the output's
\* handle is open for the write only, inside the input's block, and is
\* closed first; no handle is open when the stage has returned or raised.
C22_HandlesNestedAndReleased ==
    /\ StageEnded => step.open = {}
    /\ step.open \subseteq {SrcHandle, DstHandle}
    /\ SrcHandle.path # DstHandle.path
    /\ DstHandle \in step.open => SrcHandle \in step.open
    /\ DstHandle \in step.open =>
          /\ step.pc \in {"write", "closeOut", "unwind"}
          /\ DoneAt("open dst") > DoneAt("read src")
    /\ step.pc \in {"body", "mkdir", "openOut", "write", "closeOut", "closeIn"}
          => SrcHandle \in step.open
    /\ step.pc = "returned" =>
          step.done = <<"open src", "read src", "mkdir", "open dst", "write dst",
                        "close dst", "close src">>

\* the output is being written with the input still open, and a stage has
\* raised in the write and released both
C22_Witness ==
    /\ step.pc = "write"
    /\ step.open = {SrcHandle, DstHandle}

C22_WitnessRaised ==
    /\ step.pc = "raised"
    /\ stepIn.raises = "write"
    /\ step.open = {}


----------------------------------------------------------------------------
(* Claims about the independence of the per-tile pipelines *)

\* the three stage calls of one pair, one after the other
RunPipeline(fs, pr) ==
    ApplyStage(ApplyStage(ApplyStage(fs, "clip", pr[1], pr[2]),
                          "hillshade", pr[1], pr[2]),
               "resample", pr[1], pr[2])

\* the filesystem after the pairs were processed one after the other in
\* the order of the run
RECURSIVE SequentialFrom(_, _)
SequentialFrom(fs, i) ==
    IF i > Len(RunOrder) THEN fs
    ELSE SequentialFrom(RunPipeline(fs, RunOrder[i]), i + 1)

SequentialFs == SequentialFrom(ParFsInit, 1)

AllPipelinesDone == \A pr \in Pairs : parPc[pr] = "done"

\* C24: the pipelines of two different (site, tile) pairs write disjoint
\* sets of files and neither reads a file the other writes; however their
\* stage calls are interleaved, the directories, files and contents at the
\* end are those of the sequential run.
C24_PipelinesIndependent ==
    /\ \A p \in Pairs : \A q \in Pairs \ {p} :
          /\ parLog.rw[p].writes \cap parLog.rw[q].writes = {}
          /\ parLog.rw[p].reads \cap parLog.rw[q].writes = {}
    /\ AllPipelinesDone => parFs = SequentialFs

\* every pipeline has ended after stage calls of different pairs were
\* interleaved
C24_Witness ==
    /\ AllPipelinesDone
    /\ parLog.interleaved
    /\ \A pr \in Pairs : Cardinality(parLog.rw[pr].writes) = 3
    /\ Cardinality(DOMAIN parFs.files) = 4 * Cardinality(Pairs)

====
